---- MODULE Spec2Model ----
(***************************************************************************)
(* Portfolio API (src/main.py, src/schemas.py): the route handlers, the    *)
(* record shapes they validate against, and the document store they use.   *)
(*                                                                         *)
(* Values.  A Python value is a tagged record: None, a str, a datetime, a  *)
(* list or an ObjectId.  The text of a str is a sequence of tokens: text   *)
(* that arrives from a caller or from the store has one token per          *)
(* character, a string literal of the source is kept as a single token.    *)
(* len() and slicing are only ever applied to caller text.  Characters     *)
(* outside ASCII in the source's literals are transliterated (an em dash   *)
(* is written --).                                                         *)
(*                                                                         *)
(* Each handler does at most one store operation, and the store performs   *)
(* a single insert or a single fetch atomically, so a handler is one       *)
(* action: every interleaving of concurrent requests is an order of these  *)
(* actions.                                                                *)
(***************************************************************************)
EXTENDS Integers, Sequences, FiniteSets, TLC

VARIABLES db, env, store, now, req, resp, calls

vars == <<db, env, store, now, req, resp, calls>>

\* ------------------------------------------------------------------ bounds
\* Documents the API may insert in one run, over both write collections.
MaxInserts == 2
\* The server clock runs over 0..MaxClock.
MaxClock == 1
\* How far past a length threshold the caller messages reach.
MaxOver == 1

\* ------------------------------------------------------------- constants
\* len(payload.message) > 120
DETAIL_LEN == 120
\* payload.message[:80]
QUOTE_LEN == 80
\* collections[:10]
COLLECTIONS_SHOWN == 10
\* str(e)[:50]
ERROR_SHOWN == 50

\* ---------------------------------------------------------------- values
None == [t |-> "none"]
Str(s) == [t |-> "str", s |-> s]
Lit(s) == Str(<<s>>)
Datetime(n) == [t |-> "datetime", n |-> n]
List(xs) == [t |-> "list", items |-> xs]
ObjectId(n) == [t |-> "oid", n |-> n]

IsStr(v) == v.t = "str"
IsDatetime(v) == v.t = "datetime"
IsStrList(v) == v.t = "list" /\ \A i \in 1..Len(v.items) : IsStr(v.items[i])

\* Python truthiness of an Optional[str]: None and "" are both falsy.
Truthy(v) == IsStr(v) /\ Len(v.s) > 0

\* s[:n]
Take(s, n) == SubSeq(s, 1, IF Len(s) < n THEN Len(s) ELSE n)

UpperChars == <<"C", "E", "H", "I", "J", "O", "P", "R", "T">>
LowerChars == <<"c", "e", "h", "i", "j", "o", "p", "r", "t">>

\* str.lower(), one character
LowerChar(c) ==
    IF \E i \in 1..Len(UpperChars) : UpperChars[i] = c
    THEN LowerChars[CHOOSE i \in 1..Len(UpperChars) : UpperChars[i] = c]
    ELSE c

\* str.lower()
lower(s) == [i \in 1..Len(s) |-> LowerChar(s[i])]

\* k in s
Contains(s, k) ==
    \E i \in 1..(Len(s) - Len(k) + 1) : SubSeq(s, i, i + Len(k) - 1) = k

\* d.get(f): the value of a key, None when the key is absent
Get(d, f) == IF f \in DOMAIN d THEN d[f] ELSE None

\* d.pop(k, None): the dict without the key
pop(d, k) == [f \in DOMAIN d \ {k} |-> d[f]]

\* d[k] = v on a dict
SetKey(d, k, v) == [f \in DOMAIN d \cup {k} |-> IF f = k THEN v ELSE d[f]]

RECURSIVE SeqMax(_)
SeqMax(s) ==
    IF s = <<>> THEN 0
    ELSE LET m == SeqMax(Tail(s)) IN IF Head(s) > m THEN Head(s) ELSE m

\* ---------------------------------------------------------------- inputs
Digits == <<"0", "1", "2", "3", "4", "5", "6", "7", "8", "9">>

\* A caller message of n characters; its i-th character is the digit i mod 10.
Msg(n) == Str([i \in 1..n |-> Digits[(i % 10) + 1]])

MessageLens ==
    {0, 3} \cup {QUOTE_LEN + k : k \in 0..MaxOver}
           \cup {DETAIL_LEN + k : k \in 0..MaxOver}

Messages == {None} \cup {Msg(n) : n \in MessageLens}

Names == {None, Str(<<>>), Str(<<"A", "n", "n">>)}

Subjects ==
    { None,
      Str(<<>>),
      Str(<<"H", "i">>),
      Str(<<"h", "i", "r">>),
      Str(<<"a", " ", "h", "i", "r", "e">>),
      Str(<<"P", "R", "O", "J", "E", "C", "T">>),
      Str(<<"C", "o", "l", "l", "a", "b", "s">>) }

GoodEmail == Str(<<"a", "@", "b", ".", "c", "o">>)
BadEmail == Str(<<"a", ".", "b">>)
Emails == {None, GoodEmail, BadEmail}

\* JSON bodies.  A key the caller leaves out and a key sent as null both
\* reach the validator as None.
SuggestBodies ==
    [name : Names, email : Emails, subject : Subjects, message : Messages]

\* The suggestion requests sent while the store is in use.
SuggestProbes ==
    [name : {None}, email : Emails,
     subject : {Str(<<"a", " ", "h", "i", "r", "e">>)}, message : {Msg(3)}]

\* Timestamps a caller may send: one the server clock also reaches, one it
\* never reaches.
CallerTimes == {Datetime(0), Datetime(9)}

ContactBodies ==
    [name : {None, Str(<<"A", "n", "n">>)},
     email : Emails,
     subject : {None, Str(<<"H", "i">>)},
     body : {None, Str(<<"y", "o">>)},
     created_at : {None, Datetime(9)}]

InteractionBodies ==
    [session_id : {None, Str(<<"s", "1">>)},
     event : {Str(<<"c", "l", "i", "c", "k">>)},
     value : {None},
     path : {None},
     created_at : {None} \cup CallerTimes]

\* ------------------------------------------------------- schemas (shapes)
\* EmailStr: the address has one "@", a non-empty local part and a dotted
\* domain.
EmailStr(v) ==
    /\ IsStr(v)
    /\ \E i \in 2..(Len(v.s) - 3) :
          /\ v.s[i] = "@"
          /\ \A j \in 1..Len(v.s) : v.s[j] = "@" => j = i
          /\ \E j \in (i + 2)..(Len(v.s) - 1) : v.s[j] = "."

Optional(v, ok) == v = None \/ ok

\* class Message with email declared as a plain str
Message_valid_plain_email(raw) ==
    /\ IsStr(Get(raw, "name"))
    /\ IsStr(Get(raw, "email"))
    /\ Optional(Get(raw, "subject"), IsStr(Get(raw, "subject")))
    /\ IsStr(Get(raw, "body"))
    /\ Optional(Get(raw, "created_at"), IsDatetime(Get(raw, "created_at")))

\* class Message: does the input validate
Message_valid(raw) ==
    /\ IsStr(Get(raw, "name"))
    /\ EmailStr(Get(raw, "email"))
    /\ Optional(Get(raw, "subject"), IsStr(Get(raw, "subject")))
    /\ IsStr(Get(raw, "body"))
    /\ Optional(Get(raw, "created_at"), IsDatetime(Get(raw, "created_at")))

\* class Message: the validated object (declared fields only, defaults filled)
Message(raw) ==
    [name |-> Get(raw, "name"), email |-> Get(raw, "email"),
     subject |-> Get(raw, "subject"), body |-> Get(raw, "body"),
     created_at |-> Get(raw, "created_at")]

\* class InteractionIn
InteractionIn_valid(raw) ==
    /\ IsStr(Get(raw, "session_id"))
    /\ IsStr(Get(raw, "event"))
    /\ Optional(Get(raw, "value"), IsStr(Get(raw, "value")))
    /\ Optional(Get(raw, "path"), IsStr(Get(raw, "path")))

\* InteractionIn(...).model_dump(): the four declared fields, nothing else
InteractionIn(raw) ==
    [session_id |-> Get(raw, "session_id"), event |-> Get(raw, "event"),
     value |-> Get(raw, "value"), path |-> Get(raw, "path")]

\* class SuggestionRequest
SuggestionRequest_valid(raw) ==
    /\ Optional(Get(raw, "name"), IsStr(Get(raw, "name")))
    /\ Optional(Get(raw, "email"), EmailStr(Get(raw, "email")))
    /\ Optional(Get(raw, "subject"), IsStr(Get(raw, "subject")))
    /\ Optional(Get(raw, "message"), IsStr(Get(raw, "message")))

SuggestionRequest(raw) ==
    [name |-> Get(raw, "name"), email |-> Get(raw, "email"),
     subject |-> Get(raw, "subject"), message |-> Get(raw, "message")]

\* class Testimonial
Testimonial_valid(d) ==
    /\ IsStr(Get(d, "author"))
    /\ Optional(Get(d, "role"), IsStr(Get(d, "role")))
    /\ IsStr(Get(d, "quote"))
    /\ Optional(Get(d, "avatar_url"), IsStr(Get(d, "avatar_url")))

Testimonial(d) ==
    [author |-> Get(d, "author"), role |-> Get(d, "role"),
     quote |-> Get(d, "quote"), avatar_url |-> Get(d, "avatar_url")]

\* class Project
Project_valid(d) ==
    /\ IsStr(Get(d, "title"))
    /\ IsStr(Get(d, "description"))
    /\ "tags" \in DOMAIN d => IsStrList(d["tags"])
    /\ Optional(Get(d, "image_url"), IsStr(Get(d, "image_url")))
    /\ Optional(Get(d, "demo_url"), IsStr(Get(d, "demo_url")))
    /\ Optional(Get(d, "source_url"), IsStr(Get(d, "source_url")))

Project(d) ==
    [title |-> Get(d, "title"), description |-> Get(d, "description"),
     tags |-> IF "tags" \in DOMAIN d THEN d["tags"] ELSE List(<<>>),
     image_url |-> Get(d, "image_url"), demo_url |-> Get(d, "demo_url"),
     source_url |-> Get(d, "source_url")]

\* ------------------------------------------------- documents in the store
\* Testimonial and project documents are written to the store by tooling
\* outside this API; the store is schema-free, so a document may lack
\* fields, carry undeclared ones, or fail the record shape.
T_full ==
    [_id |-> ObjectId(101), author |-> Str(<<"Z", "o", "e">>),
     role |-> Str(<<"P", "M">>), quote |-> Str(<<"o", "k">>),
     avatar_url |-> None]
T_other ==
    [_id |-> ObjectId(102), author |-> Str(<<"S", "a", "m">>),
     role |-> None, quote |-> Str(<<"y", "e", "s">>),
     avatar_url |-> Str(<<"u">>)]
T_min ==
    [_id |-> ObjectId(103), author |-> Str(<<"M", "i", "n">>),
     quote |-> Str(<<"o", "k">>)]
T_extra ==
    [_id |-> ObjectId(104), author |-> Str(<<"E", "v", "e">>),
     role |-> None, quote |-> Str(<<"o", "k">>), avatar_url |-> None,
     stars |-> Str(<<"5">>)]
T_bad == [_id |-> ObjectId(105), author |-> Str(<<"B", "a", "d">>)]

TestimonialSeeds ==
    { <<>>, <<T_full, T_other>>, <<T_other, T_full>>, <<T_min, T_full>>,
      <<T_extra>>, <<T_full, T_bad>> }

P_full ==
    [_id |-> ObjectId(201), title |-> Str(<<"A">>),
     description |-> Str(<<"a", "a">>),
     tags |-> List(<<Str(<<"x">>), Str(<<"y">>)>>),
     image_url |-> None, demo_url |-> Str(<<"#">>), source_url |-> None]
P_min ==
    [_id |-> ObjectId(202), title |-> Str(<<"B">>),
     description |-> Str(<<"b", "b">>)]
P_bad ==
    [_id |-> ObjectId(203), title |-> Str(<<"C">>),
     description |-> Str(<<"c", "c">>), tags |-> Str(<<"x">>)]

ProjectSeeds == { <<>>, <<P_full>>, <<P_min, P_full>>, <<P_bad, P_full>> }

\* The collections' contents while the write endpoints are exercised.
StoreSeeds ==
    { [testimonial |-> <<>>, project |-> <<P_min, P_full>>],
      [testimonial |-> <<T_full, T_other>>, project |-> <<>>] }

\* Every combination of contents, for the two listing endpoints.
ListingSeeds == [testimonial : TestimonialSeeds, project : ProjectSeeds]

CollectionNames == {"message", "interaction", "testimonial", "project"}

\* -------------------------------------------- persistence gateway (database)
\* The ObjectId the store gives the next document: unused by any document.
NewObjectId ==
    ObjectId(1 + SeqMax([i \in 1..4 |->
        LET c == <<"message", "interaction", "testimonial", "project">>[i]
        IN SeqMax([j \in 1..Len(store[c]) |-> store[c][j]["_id"].n])]))

\* str(ObjectId): the hexadecimal rendering, kept as one token
OidStr(oid) == Str(<<ToString(oid.n)>>)

\* create_document(collection_name, data): one insert.  fault is the store
\* failing the write on an established connection.
create_document(collection_name, data, fault) ==
    IF ~db
    THEN [raised |-> "StoreUnavailable", id |-> None, store |-> store]
    ELSE IF fault
    THEN [raised |-> "StoreWriteError", id |-> None, store |-> store]
    ELSE LET stamped == IF Get(data, "created_at") = None
                        THEN SetKey(data, "created_at", Datetime(now))
                        ELSE data
             doc == SetKey(stamped, "_id", NewObjectId)
         IN [raised |-> "", id |-> OidStr(NewObjectId),
             store |-> [store EXCEPT ![collection_name] = Append(@, doc)]]

\* get_documents(collection_name): one fetch of the whole collection
get_documents(collection_name, fault) ==
    IF ~db
    THEN [raised |-> "StoreUnavailable", docs |-> <<>>]
    ELSE IF fault
    THEN [raised |-> "StoreReadError", docs |-> <<>>]
    ELSE [raised |-> "", docs |-> store[collection_name]]

Call(op, collection_name, r) ==
    [op |-> op, collection |-> collection_name, raised |-> r.raised]

\* ----------------------------------------------------------- API handlers
\* @app.get("/")
read_root == [status |-> 200,
              body |-> [message |-> Lit("Portfolio backend is running")]]

\* db.list_collection_names(): the collections that hold a document
list_collection_names ==
    SelectSeq(<<"interaction", "message", "project", "testimonial">>,
              LAMBDA c : store[c] # <<>>)

\* @app.get("/test").  The error text of a failed listing is one token, so
\* its truncation to 50 characters leaves it whole.
test_database(fault) ==
    [status |-> 200,
     body |->
       [backend |-> Lit("Running"),
        database |->
            IF db
            THEN IF fault
                 THEN Str(<<"Connected but Error: ">>
                          \o Take(<<"list_collection_names failed">>,
                                  ERROR_SHOWN))
                 ELSE Lit("Connected & Working")
            ELSE Lit("Available but not initialized"),
        database_url |-> IF env.DATABASE_URL THEN Lit("Set")
                         ELSE Lit("Not Set"),
        database_name |-> IF env.DATABASE_NAME THEN Lit("Set")
                          ELSE Lit("Not Set"),
        connection_status |-> IF db THEN Lit("Connected")
                              ELSE Lit("Not Connected"),
        collections |->
            IF db /\ ~fault
            THEN Take(list_collection_names, COLLECTIONS_SHOWN)
            ELSE <<>>]]

\* ai_suggest: subj
suggest_subject_at_limit(payload) ==
    IF Truthy(payload.message) /\ Len(payload.message.s) >= DETAIL_LEN
    THEN Lit("Re: Your detailed message--thank you!")
    ELSE IF /\ Truthy(payload.subject)
            /\ \E k \in { <<"h", "i", "r", "e">>,
                          <<"p", "r", "o", "j", "e", "c", "t">>,
                          <<"c", "o", "l", "l", "a", "b">> } :
                   Contains(lower(payload.subject.s), k)
    THEN Lit("Excited to collaborate--here's a quick note")
    ELSE IF Truthy(payload.subject) THEN payload.subject
    ELSE Lit("Let's connect")

suggest_subject(payload) ==
    IF Truthy(payload.message) /\ Len(payload.message.s) > DETAIL_LEN
    THEN Lit("Re: Your detailed message--thank you!")
    ELSE IF /\ Truthy(payload.subject)
            /\ \E k \in { <<"h", "i", "r", "e">>,
                          <<"p", "r", "o", "j", "e", "c", "t">>,
                          <<"c", "o", "l", "l", "a", "b">> } :
                   Contains(lower(payload.subject.s), k)
    THEN Lit("Excited to collaborate--here's a quick note")
    ELSE IF Truthy(payload.subject) THEN payload.subject
    ELSE Lit("Let's connect")

\* ai_suggest: body_hint
suggest_body_hint_whole(payload) ==
    IF Truthy(payload.message)
    THEN <<"\n\nI read your note about \"">>
         \o payload.message.s
         \o <<"\"--let's explore it further.">>
    ELSE <<>>

suggest_body_hint(payload) ==
    IF Truthy(payload.message)
    THEN <<"\n\nI read your note about \"">>
         \o Take(payload.message.s, QUOTE_LEN)
         \o <<"\"--let's explore it further.">>
    ELSE <<>>

\* @app.post("/ai/suggest")
ai_suggest(payload) ==
    LET intro_name == IF Truthy(payload.name) THEN payload.name
                      ELSE Lit("there")
        message ==
            <<"Hi ">> \o intro_name.s
            \o <<",\n\n",
                 "Thanks for reaching out. I'm thrilled you stopped by my portfolio. ",
                 "Share a bit more about your goals, timeline, and any references you love--",
                 "I'll propose a clear next step. ">>
            \o suggest_body_hint(payload)
            \o <<"\n\n", "Best,\nMr. [Full Name]">>
    IN [status |-> 200,
        body |-> [subject |-> suggest_subject(payload),
                  message |-> Str(message)]]

\* submit_contact inserting into the interaction collection
submit_contact_wrong_collection(msg, fault) ==
    LET r == create_document("interaction", msg, fault)
    IN [resp |-> IF r.raised = ""
                 THEN [status |-> 200,
                       body |-> [status |-> Lit("ok"), id |-> r.id]]
                 ELSE [status |-> 500, body |-> [detail |-> Lit(r.raised)]],
        store |-> r.store,
        calls |-> <<Call("create_document", "message", r)>>]

\* submit_contact answering with the stored copy of a message it already has
submit_contact_dedup(msg, fault) ==
    LET r == create_document("message", msg, fault)
        same == {i \in 1..Len(store["message"]) :
                    \A f \in {"name", "email", "subject", "body"} :
                        store["message"][i][f] = msg[f]}
    IN IF r.raised = "" /\ same # {}
       THEN [resp |-> [status |-> 200,
                       body |-> [status |-> Lit("ok"),
                                 id |-> OidStr(store["message"]
                                          [CHOOSE i \in same : TRUE]["_id"])]],
             store |-> store,
             calls |-> <<Call("create_document", "message", r)>>]
       ELSE [resp |-> IF r.raised = ""
                      THEN [status |-> 200,
                            body |-> [status |-> Lit("ok"), id |-> r.id]]
                      ELSE [status |-> 500,
                            body |-> [detail |-> Lit(r.raised)]],
             store |-> r.store,
             calls |-> <<Call("create_document", "message", r)>>]

\* @app.post("/contact")
submit_contact(msg, fault) ==
    LET r == create_document("message", msg, fault)
    IN [resp |-> IF r.raised = ""
                 THEN [status |-> 200,
                       body |-> [status |-> Lit("ok"), id |-> r.id]]
                 ELSE [status |-> 500, body |-> [detail |-> Lit(r.raised)]],
        store |-> r.store,
        calls |-> <<Call("create_document", "message", r)>>]

\* record_interaction answering "ok" when the insert raised
record_interaction_swallow(payload, fault) ==
    LET data == SetKey(InteractionIn(payload), "created_at", Datetime(now))
        r == create_document("interaction", data, fault)
    IN [resp |-> [status |-> 200,
                  body |-> [status |-> Lit("ok"), id |-> r.id]],
        store |-> r.store,
        calls |-> <<Call("create_document", "interaction", r)>>]

\* record_interaction stamping created_at only when the body has none
record_interaction_keeps_caller_time(payload, fault) ==
    LET data == SetKey(InteractionIn(payload), "created_at",
                       IF Get(payload, "created_at") = None
                       THEN Datetime(now) ELSE Get(payload, "created_at"))
        r == create_document("interaction", data, fault)
    IN [resp |-> IF r.raised = ""
                 THEN [status |-> 200,
                       body |-> [status |-> Lit("ok"), id |-> r.id]]
                 ELSE [status |-> 500, body |-> [detail |-> Lit(r.raised)]],
        store |-> r.store,
        calls |-> <<Call("create_document", "interaction", r)>>]

\* @app.post("/interactions")
record_interaction(payload, fault) ==
    LET data == SetKey(InteractionIn(payload), "created_at", Datetime(now))
        r == create_document("interaction", data, fault)
    IN [resp |-> IF r.raised = ""
                 THEN [status |-> 200,
                       body |-> [status |-> Lit("ok"), id |-> r.id]]
                 ELSE [status |-> 500, body |-> [detail |-> Lit(r.raised)]],
        store |-> r.store,
        calls |-> <<Call("create_document", "interaction", r)>>]

TestimonialOf(author, role, quote, avatar_url) ==
    [author |-> Lit(author), role |-> Lit(role), quote |-> Lit(quote),
     avatar_url |-> Lit(avatar_url)]

\* get_testimonials: the list of the "if not cleaned" branch
testimonials_if_empty ==
    << TestimonialOf("Ava Chen", "Creative Director",
           "A visionary with a rare blend of artistry and engineering.",
           "https://i.pravatar.cc/150?img=68"),
       TestimonialOf("Liam Patel", "CTO, Nova Labs",
           "Turns impossible ideas into delightful realities.",
           "https://i.pravatar.cc/150?img=12"),
       TestimonialOf("Maya Rodriguez", "Founder, Helix Studio",
           "Every interaction feels like magic--truly next-level.",
           "https://i.pravatar.cc/150?img=32") >>

\* the "except Exception" list with two items exchanged
testimonials_on_except_reordered ==
    << TestimonialOf("Liam Patel", "CTO, Nova Labs",
           "Turns impossible ideas into delightful realities.",
           "https://i.pravatar.cc/150?img=12"),
       TestimonialOf("Ava Chen", "Creative Director",
           "A visionary with a rare blend of artistry and engineering.",
           "https://i.pravatar.cc/150?img=68"),
       TestimonialOf("Maya Rodriguez", "Founder, Helix Studio",
           "Every interaction feels like magic--truly next-level.",
           "https://i.pravatar.cc/150?img=32") >>

\* get_testimonials: the list of the "except Exception" branch
testimonials_on_except ==
    << TestimonialOf("Ava Chen", "Creative Director",
           "A visionary with a rare blend of artistry and engineering.",
           "https://i.pravatar.cc/150?img=68"),
       TestimonialOf("Liam Patel", "CTO, Nova Labs",
           "Turns impossible ideas into delightful realities.",
           "https://i.pravatar.cc/150?img=12"),
       TestimonialOf("Maya Rodriguez", "Founder, Helix Studio",
           "Every interaction feels like magic--truly next-level.",
           "https://i.pravatar.cc/150?img=32") >>

\* get_testimonials writing the defaults into an empty collection
get_testimonials_seeding(fault) ==
    LET r == get_documents("testimonial", fault)
        docs == [i \in 1..Len(r.docs) |-> pop(r.docs[i], "_id")]
        raises == r.raised # ""
                  \/ \E i \in 1..Len(docs) : ~Testimonial_valid(docs[i])
        cleaned == [i \in 1..Len(docs) |-> Testimonial(docs[i])]
        seeded == [i \in 1..3 |->
                      SetKey(testimonials_if_empty[i], "_id",
                             ObjectId(NewObjectId.n + i - 1))]
    IN [resp |-> [status |-> 200,
                  body |-> IF raises THEN testimonials_on_except
                           ELSE IF cleaned = <<>> THEN testimonials_if_empty
                           ELSE cleaned],
        store |-> IF ~raises /\ cleaned = <<>>
                  THEN [store EXCEPT !["testimonial"] = seeded]
                  ELSE store,
        calls |-> <<Call("get_documents", "testimonial", r)>>]

\* get_testimonials leaving out the documents that fail the shape
get_testimonials_skip_invalid(fault) ==
    LET r == get_documents("testimonial", fault)
        docs == [i \in 1..Len(r.docs) |-> pop(r.docs[i], "_id")]
        cleaned == [i \in 1..Len(SelectSeq(docs, Testimonial_valid)) |->
                       Testimonial(SelectSeq(docs, Testimonial_valid)[i])]
    IN [resp |-> [status |-> 200,
                  body |-> IF r.raised # "" THEN testimonials_on_except
                           ELSE IF cleaned = <<>> THEN testimonials_if_empty
                           ELSE cleaned],
        store |-> store,
        calls |-> <<Call("get_documents", "testimonial", r)>>]

\* @app.get("/testimonials")
get_testimonials(fault) ==
    LET r == get_documents("testimonial", fault)
        docs == [i \in 1..Len(r.docs) |-> pop(r.docs[i], "_id")]
        raises == r.raised # ""
                  \/ \E i \in 1..Len(docs) : ~Testimonial_valid(docs[i])
        cleaned == [i \in 1..Len(docs) |-> Testimonial(docs[i])]
    IN [resp |-> [status |-> 200,
                  body |-> IF raises THEN testimonials_on_except
                           ELSE IF cleaned = <<>> THEN testimonials_if_empty
                           ELSE cleaned],
        store |-> store,
        calls |-> <<Call("get_documents", "testimonial", r)>>]

ProjectOf(title, description, tags, image_url) ==
    [title |-> Lit(title), description |-> Lit(description),
     tags |-> List([i \in 1..Len(tags) |-> Lit(tags[i])]),
     image_url |-> Lit(image_url), demo_url |-> Lit("#"),
     source_url |-> Lit("#")]

\* get_projects: the list of the "if not cleaned" branch
projects_if_empty ==
    << ProjectOf("Nebula UI System",
           "A component library with cinematic motion and generative themes.",
           <<"Design System", "Framer Motion", "AI Skinning">>,
           "https://images.unsplash.com/photo-1517694712202-14dd9538aa97?q=80&w=1400&auto=format&fit=crop"),
       ProjectOf("Aurora Graph",
           "Real-time data artistry--particles, wavefields, living charts.",
           <<"WebGL", "D3", "Shaders">>,
           "https://images.unsplash.com/photo-1507874457470-272b3c8d8ee2?q=80&w=1400&auto=format&fit=crop"),
       ProjectOf("Echo Spaces",
           "Immersive 3D microsites with spatial audio and parallax.",
           <<"Three.js", "Audio", "Spline">>,
           "https://images.unsplash.com/photo-1470225620780-dba8ba36b745?q=80&w=1400&auto=format&fit=crop") >>

\* get_projects: the list of the "except Exception" branch
projects_on_except ==
    << ProjectOf("Nebula UI System",
           "A component library with cinematic motion and generative themes.",
           <<"Design System", "Framer Motion", "AI Skinning">>,
           "https://images.unsplash.com/photo-1517694712202-14dd9538aa97?q=80&w=1400&auto=format&fit=crop"),
       ProjectOf("Aurora Graph",
           "Real-time data artistry--particles, wavefields, living charts.",
           <<"WebGL", "D3", "Shaders">>,
           "https://images.unsplash.com/photo-1507874457470-272b3c8d8ee2?q=80&w=1400&auto=format&fit=crop"),
       ProjectOf("Echo Spaces",
           "Immersive 3D microsites with spatial audio and parallax.",
           <<"Three.js", "Audio", "Spline">>,
           "https://images.unsplash.com/photo-1470225620780-dba8ba36b745?q=80&w=1400&auto=format&fit=crop") >>

\* @app.get("/projects")
get_projects(fault) ==
    LET r == get_documents("project", fault)
        docs == [i \in 1..Len(r.docs) |-> pop(r.docs[i], "_id")]
        raises == r.raised # ""
                  \/ \E i \in 1..Len(docs) : ~Project_valid(docs[i])
        cleaned == [i \in 1..Len(docs) |-> Project(docs[i])]
    IN [resp |-> [status |-> 200,
                  body |-> IF raises THEN projects_on_except
                           ELSE IF cleaned = <<>> THEN projects_if_empty
                           ELSE cleaned],
        store |-> store,
        calls |-> <<Call("get_documents", "project", r)>>]

\* @app.get("/schema"): every BaseModel subclass of schemas, by name, with
\* the required fields of its JSON schema
get_schema ==
    [status |-> 200,
     body |-> [Interaction |-> <<"session_id", "event">>,
               Message |-> <<"name", "email", "body">>,
               Product |-> <<"title", "price", "category">>,
               Project |-> <<"title", "description">>,
               Testimonial |-> <<"author", "quote">>,
               User |-> <<"name", "email">>]]

\* A request body that fails validation is answered by the framework with
\* 422 before the handler is entered.
Unprocessable == [status |-> 422, body |-> [detail |-> Lit("validation error")]]

Request(route, body) == [route |-> route, body |-> body, at |-> now]

\* ------------------------------------------------------------ the system
\* The process after start-up: db is the handle (TRUE) or None (FALSE), set
\* once from the environment; a connection needs both settings.
InitWith(seeds) ==
    /\ db \in BOOLEAN
    /\ env \in [DATABASE_URL : BOOLEAN, DATABASE_NAME : BOOLEAN]
    /\ db => env.DATABASE_URL /\ env.DATABASE_NAME
    /\ \E s \in seeds :
          store = [message |-> <<>>, interaction |-> <<>>,
                   testimonial |-> s.testimonial, project |-> s.project]
    /\ now = 0
    /\ req = Request("start", None)
    /\ resp = [status |-> 0, body |-> None]
    /\ calls = <<>>

Init == InitWith(StoreSeeds)

Inserted == Len(store["message"]) + Len(store["interaction"])

Tick ==
    /\ now < MaxClock
    /\ now' = now + 1
    /\ UNCHANGED <<db, env, store, req, resp, calls>>

GetRoot ==
    /\ req' = Request("GET /", None)
    /\ resp' = read_root
    /\ calls' = <<>>
    /\ UNCHANGED <<db, env, store, now>>

GetTest ==
    \E fault \in BOOLEAN :
        /\ req' = Request("GET /test", None)
        /\ resp' = test_database(fault)
        /\ calls' = <<>>
        /\ UNCHANGED <<db, env, store, now>>

PostAiSuggest(bodies) ==
    \E raw \in bodies :
        /\ req' = Request("POST /ai/suggest", raw)
        /\ resp' = IF SuggestionRequest_valid(raw)
                   THEN ai_suggest(SuggestionRequest(raw))
                   ELSE Unprocessable
        /\ calls' = <<>>
        /\ UNCHANGED <<db, env, store, now>>

PostContact ==
    \E raw \in ContactBodies, fault \in BOOLEAN :
        /\ Inserted < MaxInserts
        /\ req' = Request("POST /contact", raw)
        /\ IF Message_valid(raw)
           THEN LET h == submit_contact(Message(raw), fault)
                IN resp' = h.resp /\ store' = h.store /\ calls' = h.calls
           ELSE resp' = Unprocessable /\ calls' = <<>> /\ UNCHANGED store
        /\ UNCHANGED <<db, env, now>>

PostInteractions ==
    \E raw \in InteractionBodies, fault \in BOOLEAN :
        /\ Inserted < MaxInserts
        /\ req' = Request("POST /interactions", raw)
        /\ IF InteractionIn_valid(raw)
           THEN LET h == record_interaction(raw, fault)
                IN resp' = h.resp /\ store' = h.store /\ calls' = h.calls
           ELSE resp' = Unprocessable /\ calls' = <<>> /\ UNCHANGED store
        /\ UNCHANGED <<db, env, now>>

GetTestimonials ==
    \E fault \in BOOLEAN :
        LET h == get_testimonials(fault)
        IN /\ req' = Request("GET /testimonials", None)
           /\ resp' = h.resp /\ store' = h.store /\ calls' = h.calls
           /\ UNCHANGED <<db, env, now>>

GetProjects ==
    \E fault \in BOOLEAN :
        LET h == get_projects(fault)
        IN /\ req' = Request("GET /projects", None)
           /\ resp' = h.resp /\ store' = h.store /\ calls' = h.calls
           /\ UNCHANGED <<db, env, now>>

GetSchema ==
    /\ req' = Request("GET /schema", None)
    /\ resp' = get_schema
    /\ calls' = <<>>
    /\ UNCHANGED <<db, env, store, now>>

Next ==
    \/ Tick
    \/ GetRoot
    \/ GetTest
    \/ PostAiSuggest(SuggestProbes)
    \/ PostContact
    \/ PostInteractions
    \/ GetTestimonials
    \/ GetProjects
    \/ GetSchema

Spec == Init /\ [][Next]_vars

\* The suggestion generator alone, over every request body.
NextSuggest == PostAiSuggest(SuggestBodies)

InitSuggest == InitWith({[testimonial |-> <<>>, project |-> <<>>]})

SpecSuggest == InitSuggest /\ [][NextSuggest]_vars

\* The two listing endpoints alone, over every content of their collections.
InitListing == InitWith(ListingSeeds)

NextListing == GetTestimonials \/ GetProjects

SpecListing == InitListing /\ [][NextListing]_vars

\* =================================================================== claims
IsListing(r) == r.route \in {"GET /testimonials", "GET /projects"}

ListedCollection(r) ==
    IF r.route = "GET /testimonials" THEN "testimonial" ELSE "project"

\* The first field of each item of a listing, in order.
Headline(body) ==
    [i \in 1..Len(body) |->
        IF "author" \in DOMAIN body[i] THEN body[i].author ELSE body[i].title]

FallbackHeadline(r) ==
    IF r.route = "GET /testimonials"
    THEN <<Lit("Ava Chen"), Lit("Liam Patel"), Lit("Maya Rodriguez")>>
    ELSE <<Lit("Nebula UI System"), Lit("Aurora Graph"), Lit("Echo Spaces")>>

FallbackList(r) ==
    IF r.route = "GET /testimonials" THEN testimonials_if_empty
    ELSE projects_if_empty

FetchFailed == calls # <<>> /\ calls[1].raised # ""

\* C1: GET /testimonials and GET /projects answer 200 with the endpoint's
\* fixed three-item fallback list, in its fixed order, whenever the store is
\* disconnected, the fetch fails or the collection is empty; the failing
\* case and the empty case give the same body.
C1_FallbackOnEmptyOrDisconnected ==
    (IsListing(req) /\ (~db \/ FetchFailed \/ store[ListedCollection(req)] = <<>>))
        => /\ resp.status = 200
           /\ Len(resp.body) = 3
           /\ Headline(resp.body) = FallbackHeadline(req)
           /\ resp.body = FallbackList(req)

C1_Witness ==
    /\ req.route = "GET /testimonials"
    /\ ~db
    /\ store["testimonial"] # <<>>
    /\ resp.status = 200
    /\ resp.body = testimonials_if_empty

InvalidEmailSent(r) ==
    /\ r.route \in {"POST /contact", "POST /ai/suggest"}
    /\ r.body.email # None
    /\ ~EmailStr(r.body.email)

\* C2: a POST /contact or POST /ai/suggest whose email is present and
\* malformed is answered 422 with no store operation issued and every
\* collection left as it was, connected or not.
C2_InvalidEmailRejectedBeforeStore ==
    [][InvalidEmailSent(req')
          => resp'.status = 422 /\ calls' = <<>> /\ store' = store]_vars

C2_Witness ==
    /\ req.route = "POST /contact"
    /\ db
    /\ IsStr(req.body.name) /\ IsStr(req.body.body)
    /\ req.body.email = BadEmail
    /\ resp.status = 422
    /\ calls = <<>>

ValidContact(r) == r.route = "POST /contact" /\ Message_valid(r.body)

\* The documents of a collection whose identifier renders as id.
StoredWithId(c, id) ==
    {i \in 1..Len(store[c]) : OidStr(store[c][i]["_id"]) = id}

InsertSucceeded == calls # <<>> /\ calls[1].raised = ""

ValidWrite(r) ==
    \/ r.route = "POST /contact" /\ Message_valid(r.body)
    \/ r.route = "POST /interactions" /\ InteractionIn_valid(r.body)

\* C4: when the insert of a valid POST /contact or POST /interactions
\* fails (a disconnected store included) the answer is a 500 whose detail is
\* the failure's description, and no collection gains a document.
C4_InsertFailureIs500 ==
    [][(ValidWrite(req') /\ (~db \/ (calls' # <<>> /\ calls'[1].raised # "")))
          => /\ resp'.status = 500
             /\ calls' # <<>>
             /\ resp'.body = [detail |-> Lit(calls'[1].raised)]
             /\ calls'[1].raised \in {"StoreUnavailable", "StoreWriteError"}
             /\ store' = store]_vars

C4_Witness ==
    /\ req.route = "POST /interactions"
    /\ InteractionIn_valid(req.body)
    /\ db
    /\ calls # <<>>
    /\ calls[1].raised = "StoreWriteError"
    /\ resp.status = 500

ValidSuggest(r) ==
    r.route = "POST /ai/suggest" /\ SuggestionRequest_valid(r.body)

Given(v) == v # None

CharCount(v) == IF Given(v) THEN Len(v.s) ELSE 0

\* The subject has one of the three keywords in some letter case.
HasKeyword(v) ==
    \E k \in { <<"h", "i", "r", "e">>, <<"p", "r", "o", "j", "e", "c", "t">>,
               <<"c", "o", "l", "l", "a", "b">> } :
        \E i \in 1..Len(v.s), j \in 1..Len(v.s) : lower(SubSeq(v.s, i, j)) = k

\* C5 as first stated: the subject is the caller's own whenever one was
\* given and neither rule applies.
C5_Original ==
    ValidSuggest(req)
        => resp.body.subject =
              IF CharCount(req.body.message) > 120
              THEN Lit("Re: Your detailed message--thank you!")
              ELSE IF Given(req.body.subject) /\ HasKeyword(req.body.subject)
              THEN Lit("Excited to collaborate--here's a quick note")
              ELSE IF Given(req.body.subject) THEN req.body.subject
              ELSE Lit("Let's connect")

\* C5: the returned subject is the "detailed message" subject when the
\* message has more than 120 characters (exactly 120 does not count), else
\* the "collaborate" subject when the subject holds hire, project or collab
\* in any letter case, else the caller's subject verbatim when it is given
\* and not empty, else "Let's connect".
C5_SubjectPriority ==
    ValidSuggest(req)
        => resp.body.subject =
              IF CharCount(req.body.message) > 120
              THEN Lit("Re: Your detailed message--thank you!")
              ELSE IF Given(req.body.subject) /\ HasKeyword(req.body.subject)
              THEN Lit("Excited to collaborate--here's a quick note")
              ELSE IF Given(req.body.subject) /\ req.body.subject.s # <<>>
              THEN req.body.subject
              ELSE Lit("Let's connect")

C5_Witness ==
    /\ ValidSuggest(req)
    /\ CharCount(req.body.message) = 120
    /\ req.body.subject = Str(<<"P", "R", "O", "J", "E", "C", "T">>)
    /\ resp.body.subject = Lit("Excited to collaborate--here's a quick note")

\* The fixed template around a greeting name and an appended sentence.
Template(greeting, sentence) ==
    Str(<<"Hi ">> \o greeting
        \o <<",\n\n",
             "Thanks for reaching out. I'm thrilled you stopped by my portfolio. ",
             "Share a bit more about your goals, timeline, and any references you love--",
             "I'll propose a clear next step. ">>
        \o sentence
        \o <<"\n\n", "Best,\nMr. [Full Name]">>)

QuoteSentence(quoted) ==
    <<"\n\nI read your note about \"">> \o quoted
    \o <<"\"--let's explore it further.">>

FirstChars(s, n) == [i \in 1..(IF Len(s) <= n THEN Len(s) ELSE n) |-> s[i]]

\* C6 as first stated: the supplied name is greeted whenever a name was
\* given, and the sentence is appended whenever a message was supplied.
C6_Original ==
    ValidSuggest(req)
        => resp.body.message =
              Template(IF Given(req.body.name) THEN req.body.name.s
                       ELSE <<"there">>,
                       IF Given(req.body.message)
                       THEN QuoteSentence(FirstChars(req.body.message.s, 80))
                       ELSE <<>>)

\* C6: the returned message is the fixed template greeting the supplied
\* name ("there" when no name is given or the name is empty), with the
\* sentence quoting the first 80 characters of the message appended if and
\* only if a non-empty message was supplied; a message of 80 characters or
\* fewer is quoted whole.
C6_MessageTemplate ==
    ValidSuggest(req)
        => resp.body.message =
              Template(IF Given(req.body.name) /\ req.body.name.s # <<>>
                       THEN req.body.name.s ELSE <<"there">>,
                       IF Given(req.body.message) /\ req.body.message.s # <<>>
                       THEN QuoteSentence(FirstChars(req.body.message.s, 80))
                       ELSE <<>>)

C6_Witness ==
    /\ ValidSuggest(req)
    /\ CharCount(req.body.message) = 81
    /\ req.body.name = Str(<<"A", "n", "n">>)
    /\ resp.body.message =
          Template(<<"A", "n", "n">>,
                   QuoteSentence(SubSeq(req.body.message.s, 1, 80)))

ValidInteraction(r) ==
    r.route = "POST /interactions" /\ InteractionIn_valid(r.body)

\* C7: every document of the interaction collection carries a created_at
\* read from the server clock, and the document a successful
\* POST /interactions stored carries the time the request was handled,
\* whatever created_at the request body held.
C7_CreatedAtIsServerTime ==
    /\ \A i \in 1..Len(store["interaction"]) :
          store["interaction"][i]["created_at"] \in {Datetime(k) : k \in 0..now}
    /\ (ValidInteraction(req) /\ InsertSucceeded)
          => /\ StoredWithId("interaction", resp.body.id) # {}
             /\ \A i \in StoredWithId("interaction", resp.body.id) :
                   store["interaction"][i]["created_at"] = Datetime(req.at)

C7_Witness ==
    /\ ValidInteraction(req)
    /\ InsertSucceeded
    /\ req.body.created_at = Datetime(9)
    /\ req.at = 1
    /\ \E i \in StoredWithId("interaction", resp.body.id) :
          store["interaction"][i]["created_at"] = Datetime(1)

Extends(c) ==
    /\ Len(store'[c]) >= Len(store[c])
    /\ SubSeq(store'[c], 1, Len(store[c])) = store[c]

AddsOneTo(c) ==
    /\ Len(store'[c]) = Len(store[c]) + 1
    /\ \A o \in CollectionNames \ {c} : store'[o] = store[o]
    /\ \A o \in CollectionNames : \A i \in 1..Len(store[o]) :
          store[o][i]["_id"] # store'[c][Len(store'[c])]["_id"]

\* C8: in every step the message and interaction collections keep the
\* documents they had, unchanged and in place; a successful POST /contact
\* or POST /interactions adds exactly one document, with a fresh
\* identifier, to its own collection and none to any other, also when a
\* document with the same content is already stored.
C8_AppendOnly ==
    [][/\ Extends("message")
       /\ Extends("interaction")
       /\ (now' = now /\ req'.route = "POST /contact" /\ resp'.status = 200)
             => AddsOneTo("message")
       /\ (now' = now /\ req'.route = "POST /interactions"
             /\ resp'.status = 200)
             => AddsOneTo("interaction")]_vars

C8_Witness ==
    /\ req.route = "POST /contact"
    /\ resp.status = 200
    /\ Len(store["message"]) = 2
    /\ pop(store["message"][1], "_id") = pop(store["message"][2], "_id")
    /\ store["message"][1]["_id"] # store["message"][2]["_id"]

ReadRoutes ==
    {"GET /", "GET /test", "POST /ai/suggest", "GET /testimonials",
     "GET /projects", "GET /schema"}

\* C9: a step of GET /, GET /test, POST /ai/suggest, GET /testimonials,
\* GET /projects or GET /schema leaves every collection as it was; a
\* listing of an empty collection answers with its fallback and leaves the
\* collection empty, so the next listing answers with the fallback again.
C9_ReadsLeaveStore ==
    [][req'.route \in ReadRoutes
          => /\ store' = store
             /\ (IsListing(req') /\ ~db) => resp'.body = FallbackList(req')
             /\ (IsListing(req') /\ store[ListedCollection(req')] = <<>>)
                   => /\ resp'.body = FallbackList(req')
                      /\ store'[ListedCollection(req')] = <<>>]_vars

C9_Witness ==
    /\ req.route = "GET /testimonials"
    /\ db
    /\ ~FetchFailed
    /\ resp.body = testimonials_if_empty
    /\ store["testimonial"] = <<>>

DeclaredFields(c) ==
    IF c = "testimonial" THEN {"author", "role", "quote", "avatar_url"}
    ELSE {"title", "description", "tags", "image_url", "demo_url",
          "source_url"}

\* A stored document reduced to its record shape: declared fields only, an
\* absent field at its default.
Shaped(c, d) ==
    [f \in DeclaredFields(c) |->
        IF f \in DOMAIN d THEN d[f]
        ELSE IF f = "tags" THEN List(<<>>) ELSE None]

Revalidates(c, d) ==
    IF c = "testimonial" THEN Testimonial_valid(pop(d, "_id"))
    ELSE Project_valid(pop(d, "_id"))

ServesStored(c) ==
    /\ ~FetchFailed
    /\ store[c] # <<>>
    /\ \A i \in 1..Len(store[c]) : Revalidates(c, store[c][i])

\* C10 as first stated: when every document revalidates the body is the
\* stored documents with only the identifier removed.
C10_Original ==
    IsListing(req)
        => LET c == ListedCollection(req)
           IN resp.body =
                 IF ServesStored(c)
                 THEN [i \in 1..Len(store[c]) |-> pop(store[c][i], "_id")]
                 ELSE FallbackList(req)

\* C10: the body of a listing is one of two lists, never a mix: when the
\* fetch succeeds, the collection is not empty and every document
\* revalidates, it is the stored documents in fetch order, each reduced to
\* the declared fields of its record shape (identifier and undeclared
\* fields dropped, absent fields at their defaults); in every other case it
\* is the whole fixed fallback list.
C10_StoredOrFallback ==
    IsListing(req)
        => LET c == ListedCollection(req)
           IN resp.body =
                 IF ServesStored(c)
                 THEN [i \in 1..Len(store[c]) |-> Shaped(c, store[c][i])]
                 ELSE FallbackList(req)

C10_Witness ==
    /\ req.route = "GET /testimonials"
    /\ db
    /\ ~FetchFailed
    /\ store["testimonial"] = <<T_full, T_bad>>
    /\ resp.body = testimonials_if_empty

====
